---- MODULE Spec2Model ----
(***************************************************************************)
(* MMDistributedDataParallel (mmcv/parallel/distributed.py): the control   *)
(* protocol of train_step() and val_step() around the reducer, the buffer  *)
(* synchronisation, scatter / parallel_apply / gather and the wrapped      *)
(* module's entry points.                                                  *)
(***************************************************************************)
EXTENDS Integers, Sequences, FiniteSets, TLC

\* Bounds of the model.
MaxDevices == 2
MaxBatch == 4

VARIABLES
    TORCH_VERSION,               \* [parrots, digits]: the engine descriptor
    device_ids,                  \* self.device_ids
    find_unused_parameters,      \* self.find_unused_parameters
    module,                      \* self.module: [fn, steps]
    require_forward_param_sync,  \* "absent" | "True" | "False"
    require_backward_grad_sync,  \* "absent" | "True" | "False"
    grad_enabled,                \* torch.is_grad_enabled() during the call
    stepKind,                    \* "train_step" | "val_step": the running call
    pc,                          \* position of the call
    payload,                     \* the call's inputs
    tasks,                       \* per-device (or direct) step invocations
    output,                      \* the call's output
    log,                         \* collaborator calls of the running call
    prepared,                    \* arguments of reducer.prepare_for_backward
    error,                       \* the exception the call raised
    fwd0, bwd0,                  \* the two flags when the call started
    carry,                       \* previous call returned with grad off,
                                 \* and nobody wrote the flags since
    lastGradOff,                 \* the last call returned with grad off,
                                 \* and nobody wrote the flags since
    twin                         \* side-by-side runs: the answers and the
                                 \* outcome of the first of two calls

vars == <<TORCH_VERSION, device_ids, find_unused_parameters, module,
          require_forward_param_sync, require_backward_grad_sync,
          grad_enabled, stepKind, pc, payload, tasks, output, log,
          prepared, error, fwd0, bwd0, carry, lastGradOff, twin>>

config == <<TORCH_VERSION, device_ids, find_unused_parameters, module>>

-----------------------------------------------------------------------------
\* Versions: digit_version() tuples <<major, minor, patch, pre>>, compared
\* as Python compares tuples; pre is -3 for an alpha, 0 for a release.

V_1_2 == <<1, 2, 0, 0>>
V_1_7 == <<1, 7, 0, 0>>
V_1_11_0a0 == <<1, 11, 0, -3>>

RECURSIVE TupleLess(_, _)
TupleLess(a, b) ==
    IF a = <<>> \/ b = <<>> THEN Len(a) < Len(b)
    ELSE IF Head(a) # Head(b) THEN Head(a) < Head(b)
    ELSE TupleLess(Tail(a), Tail(b))

TupleGE(a, b) == ~TupleLess(a, b)
TupleGT(a, b) == TupleLess(b, a)

TorchVersions ==
    {[parrots |-> TRUE, digits |-> <<0, 0, 0, 0>>]} \cup
    {[parrots |-> FALSE, digits |-> d] :
        d \in {<<1, 2, 0, 0>>, <<1, 5, 0, 0>>, <<1, 7, 0, 0>>,
               <<1, 11, 0, 0>>}}

\* 'parrots' not in TORCH_VERSION and digit_version(..) >= digit_version('1.7')
RebuildsBuckets_Always == TRUE
RebuildsBuckets ==
    ~TORCH_VERSION.parrots /\ TupleGE(TORCH_VERSION.digits, V_1_7)

\* 'parrots' not in TORCH_VERSION and digit_version(..) >= '1.11.0a0'
EngineDrivenSync_From_1_7 ==
    ~TORCH_VERSION.parrots /\ TupleGE(TORCH_VERSION.digits, V_1_7)
EngineDrivenSync ==
    ~TORCH_VERSION.parrots /\ TupleGE(TORCH_VERSION.digits, V_1_11_0a0)

\* 'parrots' not in TORCH_VERSION and digit_version(..) > digit_version('1.2')
ClearsForwardFlag_Never == FALSE
ClearsForwardFlag_From_1_7 ==
    ~TORCH_VERSION.parrots /\ TupleGE(TORCH_VERSION.digits, V_1_7)
ClearsForwardFlag_Always == TRUE
ClearsForwardFlag ==
    ~TORCH_VERSION.parrots /\ TupleGT(TORCH_VERSION.digits, V_1_2)

-----------------------------------------------------------------------------
\* Values: tensors, sequences, mappings and opaque leaves.

Tensor(d) == [kind |-> "tensor", data |-> d, items |-> <<>>]
SeqOf(xs) == [kind |-> "seq", data |-> <<>>, items |-> xs]
MapOf(xs) == [kind |-> "map", data |-> <<>>, items |-> xs]
Opaque == [kind |-> "opaque", data |-> <<>>, items |-> <<>>]
NoOutput == [kind |-> "none", data |-> <<>>, items |-> <<>>]

\* The parameter tensors of the wrapped module.
Weight == Tensor(<<-1>>)
Bias == Tensor(<<-2>>)
Parameters == {Weight, Bias}

\* The wrapped module's entry points: what each returns for an input.
ModuleFns == {"identity", "nested"}
ModuleApply(fn, x) ==
    IF fn = "identity" THEN Tensor(x)
    ELSE MapOf(<<Tensor(x), SeqOf(<<Weight, Opaque>>)>>)

StepKinds == {"train_step", "val_step"}
Modules ==
    {[fn |-> f, steps |-> s] :
        f \in ModuleFns, s \in {StepKinds, {"train_step"}, {"val_step"}}}

\* torch.nn.parallel.distributed._find_tensors
RECURSIVE _find_tensors(_)
RECURSIVE FindInItems(_)
FindInItems(xs) ==
    IF xs = <<>> THEN <<>>
    ELSE _find_tensors(Head(xs)) \o FindInItems(Tail(xs))
_find_tensors(obj) ==
    IF obj.kind = "tensor" THEN <<obj>>
    ELSE IF obj.kind \in {"seq", "map"} THEN FindInItems(obj.items)
    ELSE <<>>

Range(s) == {s[i] : i \in DOMAIN s}

\* scatter_kwargs: contiguous chunks, one per target device.
ScatterFails(p, devs) == Len(p) % Len(devs) # 0
scatter(p, devs) ==
    LET k == Len(p) \div Len(devs)
    IN  [i \in 1..Len(devs) |-> SubSeq(p, (i - 1) * k + 1, i * k)]

\* gather: tensors are concatenated in device order, containers are merged
\* item by item, other values collapse to the first device's.
RECURSIVE ConcatData(_)
ConcatData(outs) ==
    IF outs = <<>> THEN <<>> ELSE Head(outs).data \o ConcatData(Tail(outs))
RECURSIVE gather(_)
gather(outs) ==
    LET first == outs[1]
    IN  IF first.kind = "tensor" THEN Tensor(ConcatData(outs))
        ELSE IF first.kind \in {"seq", "map"} THEN
            [first EXCEPT !.items =
                [j \in 1..Len(first.items) |->
                    gather([i \in 1..Len(outs) |-> outs[i].items[j]])]]
        ELSE first

-----------------------------------------------------------------------------
FlagValues == {"absent", "True", "False"}

Payloads == {[i \in 1..n |-> i] : n \in 1..MaxBatch}
DeviceLists == {[i \in 1..n |-> i - 1] : n \in 0..MaxDevices}

\* The wrapper after construction.
Constructed ==
    /\ TORCH_VERSION \in TorchVersions
    /\ device_ids \in DeviceLists
    /\ find_unused_parameters \in BOOLEAN
    /\ module \in Modules
    /\ require_forward_param_sync \in FlagValues
    /\ require_backward_grad_sync \in FlagValues
    /\ grad_enabled = TRUE
    /\ stepKind = "train_step"
    /\ pc = "idle"
    /\ payload = <<>>
    /\ tasks = <<>>
    /\ output = NoOutput
    /\ log = <<>>
    /\ prepared = <<>>
    /\ error = "none"
    /\ fwd0 = require_forward_param_sync
    /\ bwd0 = require_backward_grad_sync
    /\ carry = FALSE
    /\ lastGradOff = FALSE

\* Side-by-side runs of the two operations.  A pair of calls runs one after
\* the other from the same wrapper state: the first call ("first") records
\* the answers its collaborators gave, the second call ("second") of the
\* other operation is given the same answers.  "off": calls run freely.
TwinOff ==
    [phase |-> "off", kind |-> "train_step", grad |-> TRUE,
     pre |-> [a |-> FALSE, ok |-> TRUE], p |-> <<>>, dok |-> TRUE,
     tok |-> [i \in 1..MaxDevices |-> TRUE],
     post |-> [a |-> FALSE, ok |-> TRUE],
     log |-> <<>>, fwd |-> "absent", bwd |-> "absent", prepared |-> <<>>,
     error |-> "none", output |-> NoOutput]

Init == Constructed /\ twin = TwinOff

InitPair == Constructed /\ twin = [TwinOff EXCEPT !.phase = "first"]

\* The answers of a call: recorded by a first call, imposed on a second.
\* An answer that is not asked for counts as FALSE (a query) or TRUE (a
\* success).
TwinAnswer(field, val) ==
    /\ twin.phase = "second" => twin[field] = val
    /\ twin' = IF twin.phase = "first" THEN [twin EXCEPT ![field] = val]
               ELSE twin

TwinTask(i, ok) ==
    /\ twin.phase = "second" => twin.tok[i] = ok
    /\ twin' = IF twin.phase = "first" THEN [twin EXCEPT !.tok[i] = ok]
               ELSE twin

\* A first call is train_step from the constructed wrapper; the second call
\* is the other operation under the same gradient tracking.
TwinCall(kind, grad) ==
    /\ twin.phase = "first" => (pc = "idle" /\ kind = "train_step")
    /\ twin.phase = "second"
           => (pc = "idle" /\ kind # twin.kind /\ grad = twin.grad)
    /\ UNCHANGED twin

-----------------------------------------------------------------------------
\* Entry of train_step() / val_step() and the bucket rebuild at its head.
\* The answer of _rebuild_buckets() only selects a log message (print_log),
\* which changes nothing here.  The inputs are first read at the dispatch,
\* where the model draws them.
Call(kind, grad) ==
    /\ pc \in {"idle", "done", "failed"}
    /\ stepKind' = kind
    /\ grad_enabled' = grad
    /\ payload' = <<>>
    /\ tasks' = <<>>
    /\ output' = NoOutput
    /\ prepared' = <<>>
    /\ error' = "none"
    /\ fwd0' = require_forward_param_sync
    /\ bwd0' = require_backward_grad_sync
    /\ carry' = lastGradOff
    /\ lastGradOff' = FALSE
    /\ log' = IF RebuildsBuckets THEN <<"_rebuild_buckets">> ELSE <<>>
    /\ pc' = "presync"
    /\ TwinCall(kind, grad)
    /\ UNCHANGED <<config, require_forward_param_sync,
                   require_backward_grad_sync>>

train_step(grad) == Call("train_step", grad)
val_step(grad) == Call("val_step", grad)

\* getattr(self, 'require_forward_param_sync', False)
\*     and self.require_forward_param_sync
FlagDrivenPush == require_forward_param_sync = "True"

\* Where the call goes after a push: an exception of _sync_buffers() or
\* _sync_params() is not caught and ends the call.
AfterPush_Swallowed(ok, next) == next
AfterPush(ok, next) == IF ok THEN next ELSE "failed"

\* The log entry of an engine query with its answer.
Answer(query, a) ==
    IF query = "pre"
    THEN (IF a THEN "_check_sync_bufs_pre_fwd=True"
               ELSE "_check_sync_bufs_pre_fwd=False")
    ELSE (IF a THEN "_check_sync_bufs_post_fwd=True"
               ELSE "_check_sync_bufs_post_fwd=False")

\* The buffer push before the computation.  pre is the answer of
\* _check_sync_bufs_pre_fwd(), ok tells whether the push succeeds.
PreSync(pre, ok) ==
    /\ pc = "presync"
    /\ LET queried == IF EngineDrivenSync
                      THEN <<Answer("pre", pre)>> ELSE <<>>
           push == IF EngineDrivenSync THEN pre ELSE FlagDrivenPush
           op == IF EngineDrivenSync
                 THEN "_sync_buffers:pre" ELSE "_sync_params"
       IN  IF push
           THEN /\ log' = log \o queried \o <<op>>
                /\ pc' = AfterPush(ok, "dispatch")
                /\ error' = IF ok THEN "none" ELSE "PushError"
           ELSE /\ log' = log \o queried
                /\ pc' = "dispatch"
                /\ error' = "none"
    /\ TwinAnswer("pre", [a |-> EngineDrivenSync /\ pre,
                          ok |-> IF EngineDrivenSync
                                 THEN pre => ok
                                 ELSE FlagDrivenPush => ok])
    /\ UNCHANGED <<config, require_forward_param_sync,
                   require_backward_grad_sync, grad_enabled, stepKind,
                   payload, tasks, output, prepared, fwd0, bwd0, carry,
                   lastGradOff>>

Task(fn, arg, st, out, scattered) ==
    [fn |-> fn, arg |-> arg, st |-> st, out |-> out, scattered |-> scattered]

\* self.module.train_step(..) / self.module.val_step(..) called directly by
\* the wrapper; log0 is the log up to the call.
DirectStep(arg, scattered, log0, ok) ==
    IF stepKind \notin module.steps
    THEN /\ pc' = "failed"
         /\ error' = "AttributeError"
         /\ log' = log0
         /\ UNCHANGED <<tasks, output>>
    ELSE /\ log' = log0 \o <<stepKind>>
         /\ IF ok
            THEN /\ tasks' = <<Task(stepKind, arg, "done",
                                     ModuleApply(module.fn, arg), scattered)>>
                 /\ output' = ModuleApply(module.fn, arg)
                 /\ pc' = "postsync"
                 /\ error' = "none"
            ELSE /\ tasks' = <<Task(stepKind, arg, "raised", NoOutput,
                                     scattered)>>
                 /\ output' = output
                 /\ pc' = "failed"
                 /\ error' = "StepError"

\* The inputs of a call and whether the direct step returns.
TwinInput(p, ok) ==
    /\ twin.phase = "second" => (twin.p = p /\ twin.dok = ok)
    /\ twin' = IF twin.phase = "first"
               THEN [twin EXCEPT !.p = p, !.dok = ok]
               ELSE twin

DispatchFrame ==
    UNCHANGED <<config, require_forward_param_sync,
                require_backward_grad_sync, grad_enabled, stepKind,
                prepared, fwd0, bwd0, carry, lastGradOff>>

\* if self.device_ids:
HasDevices == device_ids # <<>>

\* if len(self.device_ids) == 1:
SingleDevice_Never == FALSE
SingleDevice == Len(device_ids) = 1

\* The input of the direct call without devices: (*inputs, **kwargs)
DirectInput_Unpacked(p) == SubSeq(p, 1, 1)
DirectInput(p) == p

\* else: output = self.module.train_step(*inputs, **kwargs)
DispatchNoDevices(p, ok) ==
    /\ pc = "dispatch"
    /\ ~HasDevices
    /\ payload' = p
    /\ DirectStep(DirectInput(p), FALSE, log, ok)
    /\ TwinInput(p, stepKind \in module.steps => ok)
    /\ DispatchFrame

\* self.scatter(..) raises: the exception is not caught.
DispatchScatterFails_Fallback(p) ==
    /\ pc = "dispatch"
    /\ HasDevices
    /\ ScatterFails(p, device_ids)
    /\ payload' = p
    /\ DirectStep(p, FALSE, log \o <<"scatter">>, TRUE)
    /\ TwinInput(p, TRUE)
    /\ DispatchFrame
DispatchScatterFails(p) ==
    /\ pc = "dispatch"
    /\ HasDevices
    /\ ScatterFails(p, device_ids)
    /\ payload' = p
    /\ log' = log \o <<"scatter">>
    /\ pc' = "failed"
    /\ error' = "ShardingError"
    /\ UNCHANGED <<tasks, output>>
    /\ TwinInput(p, TRUE)
    /\ DispatchFrame

\* len(self.device_ids) == 1
DispatchSingleDevice(p, ok) ==
    /\ pc = "dispatch"
    /\ HasDevices /\ SingleDevice
    /\ ~ScatterFails(p, device_ids)
    /\ payload' = p
    /\ DirectStep(scatter(p, device_ids)[1], TRUE,
                  log \o <<"scatter">>, ok)
    /\ TwinInput(p, stepKind \in module.steps => ok)
    /\ DispatchFrame

\* What parallel_apply runs on each module copy: the call passes the copies
\* and the inputs only, so each copy is called as module(*input, **kwargs).
ParallelEntry == "forward"

\* outputs = self.parallel_apply(self._module_copies[:len(inputs)], ..):
\* one task per module copy, all started by the call and then joined.
DispatchParallel(p) ==
    /\ pc = "dispatch"
    /\ HasDevices /\ ~SingleDevice
    /\ ~ScatterFails(p, device_ids)
    /\ payload' = p
    /\ LET inputs == scatter(p, device_ids)
       IN  tasks' = [i \in 1..Len(inputs) |->
                        Task(ParallelEntry, inputs[i], "running", NoOutput,
                             TRUE)]
    /\ log' = log \o <<"scatter", "parallel_apply">>
    /\ pc' = "run"
    /\ UNCHANGED <<output, error>>
    /\ TwinInput(p, TRUE)
    /\ DispatchFrame

\* One per-device task returns or raises.
TaskEnd(i, ok) ==
    /\ pc = "run"
    /\ i \in DOMAIN tasks
    /\ tasks[i].st = "running"
    /\ tasks' = IF ok
                THEN [tasks EXCEPT ![i].st = "done",
                                   ![i].out = ModuleApply(module.fn,
                                                          tasks[i].arg)]
                ELSE [tasks EXCEPT ![i].st = "raised"]
    /\ UNCHANGED <<log, pc, output, error>>
    /\ UNCHANGED payload
    /\ TwinTask(i, ok)
    /\ DispatchFrame

AllJoined_NoWait == TRUE
AllJoined == \A i \in DOMAIN tasks : tasks[i].st \in {"done", "raised"}
SomeRaised_Ignored == FALSE
SomeRaised == \E i \in DOMAIN tasks : tasks[i].st = "raised"

\* outputs: what parallel_apply returns, one per module copy in order.
Outputs_FirstOnly == <<tasks[1].out>>
Outputs == [i \in DOMAIN tasks |-> tasks[i].out]

\* parallel_apply returns; output = self.gather(outputs, self.output_device)
JoinGather ==
    /\ pc = "run"
    /\ AllJoined /\ ~SomeRaised
    /\ output' = gather(Outputs)
    /\ log' = log \o <<"gather">>
    /\ pc' = "postsync"
    /\ UNCHANGED <<tasks, error>>
    /\ UNCHANGED <<payload, twin>>
    /\ DispatchFrame

\* parallel_apply re-raises the exception of a task after joining all.
JoinRaise ==
    /\ pc = "run"
    /\ AllJoined /\ SomeRaised
    /\ pc' = "failed"
    /\ error' = "ReplicaFailure"
    /\ UNCHANGED <<tasks, output, log>>
    /\ UNCHANGED <<payload, twin>>
    /\ DispatchFrame

\* The buffer push after the computation.  post is the answer of
\* _check_sync_bufs_post_fwd(), ok tells whether the push succeeds.
PostSync(post, ok) ==
    /\ pc = "postsync"
    /\ IF EngineDrivenSync
       THEN IF post
            THEN /\ log' = log \o <<Answer("post", TRUE),
                                    "_sync_buffers:post">>
                 /\ pc' = AfterPush(ok, "backward")
                 /\ error' = IF ok THEN "none" ELSE "PushError"
            ELSE /\ log' = log \o <<Answer("post", FALSE)>>
                 /\ pc' = "backward"
                 /\ error' = "none"
       ELSE /\ log' = log
            /\ pc' = "backward"
            /\ error' = "none"
    /\ TwinAnswer("post", [a |-> EngineDrivenSync /\ post,
                           ok |-> (EngineDrivenSync /\ post) => ok])
    /\ UNCHANGED <<config, require_forward_param_sync,
                   require_backward_grad_sync, grad_enabled, stepKind,
                   payload, tasks, output, prepared, fwd0, bwd0, carry,
                   lastGradOff>>

\* torch.is_grad_enabled()
\*     and getattr(self, 'require_backward_grad_sync', False)
\*     and self.require_backward_grad_sync
PrimesReducer_GradOnly == grad_enabled
PrimesReducer_TrainOnly ==
    /\ grad_enabled /\ require_backward_grad_sync = "True"
    /\ stepKind = "train_step"
PrimesReducer == grad_enabled /\ require_backward_grad_sync = "True"

\* list(_find_tensors(output)) if self.find_unused_parameters else []
PrepareArg_Always(out) == _find_tensors(out)
PrepareArg_Empty(out) == <<>>
PrepareArg_Swapped(out) ==
    IF find_unused_parameters THEN <<>> ELSE _find_tensors(out)
PrepareArg(out) == IF find_unused_parameters THEN _find_tensors(out) ELSE <<>>

\* require_forward_param_sync after the branch that primes the reducer:
\* the branch holds no assignment.
FlagAfterPrime_SetTrue == "True"
FlagAfterPrime == require_forward_param_sync

\* The tail of the call: prime the reducer or clear the forward flag, return.
BackwardReadiness ==
    /\ pc = "backward"
    /\ IF PrimesReducer
       THEN /\ prepared' = Append(prepared, PrepareArg(output))
            /\ log' = log \o <<"prepare_for_backward">>
            /\ require_forward_param_sync' = FlagAfterPrime
       ELSE /\ require_forward_param_sync' =
                   IF ClearsForwardFlag THEN "False"
                   ELSE require_forward_param_sync
            /\ UNCHANGED <<prepared, log>>
    /\ pc' = "done"
    /\ lastGradOff' = ~grad_enabled
    /\ UNCHANGED <<config, require_backward_grad_sync, grad_enabled,
                   stepKind, payload, tasks, output, error, fwd0, bwd0,
                   carry, twin>>

\* Between calls the base class and the caller own the two flags
\* (DistributedDataParallel.forward, no_sync) and may write them.
OutsideWrite(f, b) ==
    /\ pc \in {"done", "failed"}
    /\ twin.phase = "off"
    /\ require_forward_param_sync' = f
    /\ require_backward_grad_sync' = b
    /\ <<f, b>> # <<require_forward_param_sync, require_backward_grad_sync>>
    /\ pc' = "idle"
    /\ lastGradOff' = FALSE
    /\ payload' = <<>>
    /\ tasks' = <<>>
    /\ output' = NoOutput
    /\ log' = <<>>
    /\ prepared' = <<>>
    /\ error' = "none"
    /\ fwd0' = f
    /\ bwd0' = b
    /\ carry' = FALSE
    /\ UNCHANGED <<config, grad_enabled, stepKind, twin>>

\* Between the two calls of a pair: the outcome of the first call is kept and
\* the wrapper is put back to the state the first call started from.
TwinRestore ==
    /\ twin.phase = "first"
    /\ pc \in {"done", "failed"}
    /\ twin' = [twin EXCEPT !.phase = "second", !.kind = stepKind,
                            !.grad = grad_enabled, !.log = log,
                            !.fwd = require_forward_param_sync,
                            !.bwd = require_backward_grad_sync,
                            !.prepared = prepared, !.error = error,
                            !.output = output]
    /\ require_forward_param_sync' = fwd0
    /\ require_backward_grad_sync' = bwd0
    /\ lastGradOff' = carry
    /\ pc' = "idle"
    /\ payload' = <<>>
    /\ tasks' = <<>>
    /\ output' = NoOutput
    /\ log' = <<>>
    /\ prepared' = <<>>
    /\ error' = "none"
    /\ UNCHANGED <<config, grad_enabled, stepKind, fwd0, bwd0, carry>>

Next ==
    \/ \E g \in BOOLEAN : train_step(g)
    \/ \E g \in BOOLEAN : val_step(g)
    \/ \E a \in BOOLEAN, ok \in BOOLEAN : PreSync(a, ok)
    \/ \E p \in Payloads, ok \in BOOLEAN : DispatchNoDevices(p, ok)
    \/ \E p \in Payloads : DispatchScatterFails(p)
    \/ \E p \in Payloads, ok \in BOOLEAN : DispatchSingleDevice(p, ok)
    \/ \E p \in Payloads : DispatchParallel(p)
    \/ \E i \in 1..MaxDevices, ok \in BOOLEAN : TaskEnd(i, ok)
    \/ JoinGather
    \/ JoinRaise
    \/ \E a \in BOOLEAN, ok \in BOOLEAN : PostSync(a, ok)
    \/ BackwardReadiness
    \/ \E f \in {"True", "False"}, b \in {"True", "False"} : OutsideWrite(f, b)

Spec == Init /\ [][Next]_vars

NextPair ==
    \/ \E g \in BOOLEAN : train_step(g)
    \/ \E g \in BOOLEAN : val_step(g)
    \/ \E a \in BOOLEAN, ok \in BOOLEAN : PreSync(a, ok)
    \/ \E p \in Payloads, ok \in BOOLEAN : DispatchNoDevices(p, ok)
    \/ \E p \in Payloads : DispatchScatterFails(p)
    \/ \E p \in Payloads, ok \in BOOLEAN : DispatchSingleDevice(p, ok)
    \/ \E p \in Payloads : DispatchParallel(p)
    \/ \E i \in 1..MaxDevices, ok \in BOOLEAN : TaskEnd(i, ok)
    \/ JoinGather
    \/ JoinRaise
    \/ \E a \in BOOLEAN, ok \in BOOLEAN : PostSync(a, ok)
    \/ BackwardReadiness
    \/ TwinRestore

SpecPair == InitPair /\ [][NextPair]_vars

TypeOK ==
    /\ pc \in {"idle", "presync", "dispatch", "run", "postsync", "backward",
               "done", "failed"}
    /\ require_forward_param_sync \in FlagValues
    /\ require_backward_grad_sync \in FlagValues
    /\ stepKind \in StepKinds
    /\ (pc = "failed") = (error # "none")

-----------------------------------------------------------------------------
\* Vocabulary of the properties.

Count(op) == Cardinality({i \in DOMAIN log : log[i] = op})
Has(op) == \E i \in DOMAIN log : log[i] = op
Returned == pc = "done"
InCall == pc # "idle"

\* A non-parrots engine newer than 1.2, read off the version itself.
NewerThan_1_2 ==
    /\ ~TORCH_VERSION.parrots
    /\ LET d == TORCH_VERSION.digits
       IN  \/ d[1] > 1
           \/ d[1] = 1 /\ d[2] > 2
           \/ d[1] = 1 /\ d[2] = 2 /\ d[3] > 0

PrePushOps == {"_sync_buffers:pre", "_sync_params"}
PostOps == {"_sync_buffers:post", "prepare_for_backward"}
ComputeOps == {"scatter", "parallel_apply", "train_step", "val_step", "gather"}

\* The tensors reachable from a value, as a set.
RECURSIVE ReachableTensors(_)
ReachableTensors(obj) ==
    IF obj.kind = "tensor" THEN {obj}
    ELSE UNION {ReachableTensors(obj.items[i]) : i \in DOMAIN obj.items}

-----------------------------------------------------------------------------
\* C1: on a non-parrots engine newer than 1.2, when a train_step or val_step
\* call returns with gradient tracking off, require_forward_param_sync is
\* false, whatever it was when the call started; and the call that follows,
\* with no outside write in between, starts with the flag false.
C1_ForwardFlagCleared ==
    /\ (Returned /\ ~grad_enabled /\ NewerThan_1_2)
           => require_forward_param_sync = "False"
    /\ (InCall /\ carry /\ NewerThan_1_2) => fwd0 = "False"

C1_Witness ==
    /\ Returned /\ ~grad_enabled /\ NewerThan_1_2
    /\ fwd0 = "True" /\ require_forward_param_sync = "False"

\* C2 as stated: on every capability level, a call with gradient tracking on
\* that directly follows a call returned with gradient tracking off performs
\* no pre-compute push driven by require_forward_param_sync.
C2_NoFlagPushAfterGradOff_AllLevels ==
    (InCall /\ carry /\ grad_enabled) => ~Has("_sync_params")

\* C2 amended: the same on non-parrots engines newer than 1.2; on the legacy
\* level the flag is not cleared and the following call may push.
C2_NoFlagPushAfterGradOff ==
    (InCall /\ carry /\ grad_enabled /\ NewerThan_1_2) => ~Has("_sync_params")

C2_Witness ==
    /\ Returned /\ carry /\ grad_enabled /\ NewerThan_1_2
    /\ ~EngineDrivenSync /\ ~Has("_sync_params")

\* C3 as stated: after a call with gradient tracking off neither
\* require_forward_param_sync nor require_backward_grad_sync is true.
C3_NoFlagTrueAfterGradOff ==
    (Returned /\ ~grad_enabled)
        => /\ require_forward_param_sync # "True"
           /\ require_backward_grad_sync # "True"

\* C3 amended: after a call with gradient tracking off,
\* require_forward_param_sync is not true on a non-parrots engine newer than
\* 1.2 and keeps its starting value on the legacy level, and
\* require_backward_grad_sync keeps its starting value on every level.
C3_FlagsAfterGradOff ==
    (Returned /\ ~grad_enabled)
        => /\ require_backward_grad_sync = bwd0
           /\ NewerThan_1_2 => require_forward_param_sync # "True"
           /\ ~NewerThan_1_2 => require_forward_param_sync = fwd0

C3_Witness ==
    /\ Returned /\ ~grad_enabled /\ ~NewerThan_1_2
    /\ fwd0 = "True" /\ bwd0 = "True"
    /\ require_forward_param_sync = "True"
    /\ require_backward_grad_sync = "True"

\* C4: for every group size, every step invocation a train_step call makes
\* on the wrapped model is the train_step entry point, every one a val_step
\* call makes is val_step; forward is never run in their place.
C4_NamedEntryPointOnEveryDevice ==
    \A i \in DOMAIN tasks : tasks[i].fn = stepKind

\* C5 as stated: after a call returned with gradient tracking on and
\* find_unused_parameters false, prepare_for_backward was invoked with the
\* empty list, for every value of the two flags.
C5_PreparedEmpty_AnyFlags ==
    (Returned /\ grad_enabled /\ ~find_unused_parameters)
        => prepared = << <<>> >>

\* C5 amended: the same when require_backward_grad_sync is present and true.
C5_PreparedEmpty ==
    (Returned /\ grad_enabled /\ ~find_unused_parameters /\ bwd0 = "True")
        => prepared = << <<>> >>

C5_Witness ==
    /\ Returned /\ grad_enabled /\ ~find_unused_parameters /\ bwd0 = "True"
    /\ output # NoOutput /\ ReachableTensors(output) # {}
    /\ prepared = << <<>> >>

\* C6 as stated: after a call returned with gradient tracking on and
\* find_unused_parameters true, the set passed to prepare_for_backward is
\* the complement, within the module's parameters, of the tensors reachable
\* from the output.
C6_PreparedIsComplement ==
    (Returned /\ grad_enabled /\ find_unused_parameters)
        => \A i \in DOMAIN prepared :
               Range(prepared[i]) = Parameters \ ReachableTensors(output)

\* C6 amended: after a call returned with gradient tracking on and
\* find_unused_parameters true, the set passed to prepare_for_backward holds
\* exactly the tensors reachable from the output, not their complement; it
\* is passed, once, when require_backward_grad_sync is true.
C6_PreparedIsReachable ==
    (Returned /\ grad_enabled /\ find_unused_parameters)
        => /\ \A i \in DOMAIN prepared :
                  Range(prepared[i]) = ReachableTensors(output)
           /\ bwd0 = "True" => Len(prepared) = 1

C6_Witness ==
    /\ Returned /\ grad_enabled /\ find_unused_parameters /\ bwd0 = "True"
    /\ Len(prepared) = 1
    /\ Weight \in Range(prepared[1])
    /\ Cardinality(Range(prepared[1])) > 1

\* C7: a call with gradient tracking off, or with require_backward_grad_sync
\* absent or false, never invokes prepare_for_backward; every call invokes it
\* at most once.
C7_PrepareOnlyWhenNeeded ==
    InCall =>
        /\ (~grad_enabled \/ bwd0 # "True")
               => (prepared = <<>> /\ ~Has("prepare_for_backward"))
        /\ Len(prepared) <= 1
        /\ Count("prepare_for_backward") = Len(prepared)

C7_Witness ==
    /\ Returned /\ grad_enabled /\ bwd0 \in {"absent", "False"}
    /\ prepared = <<>>

\* C8: within a call, a pre-compute push precedes sharding and every step
\* entry point; every step task and the merge precede a post-compute push
\* and prepare_for_backward; no task is active while a push runs.
C8_Ordering ==
    InCall =>
        /\ \A i, j \in DOMAIN log :
               (log[i] \in PrePushOps /\ log[j] \in ComputeOps) => i < j
        /\ \A i, j \in DOMAIN log :
               (log[i] \in PostOps /\ log[j] \in ComputeOps) => j < i
        /\ (\E i \in DOMAIN log : log[i] \in PostOps)
               => /\ tasks # <<>>
                  /\ \A t \in DOMAIN tasks : tasks[t].st = "done"
        /\ tasks # <<>> => pc # "presync"
        /\ (\E t \in DOMAIN tasks : tasks[t].st = "running")
               => (pc = "run" /\ log[Len(log)] = "parallel_apply")

C8_Witness ==
    /\ Returned /\ Len(tasks) > 1
    /\ Has("_sync_buffers:pre") /\ Has("_sync_buffers:post")
    /\ Has("prepare_for_backward") /\ Has("gather")

\* C9 as stated: in a returned call with devices, more than one device
\* shards once and merges once; exactly one device invokes neither shard
\* nor merge, calls the step directly once, and creates no fan-out.
C9_ShardMergeCounts_NoShardForOne ==
    (Returned /\ device_ids # <<>>)
        => /\ Len(device_ids) > 1
                => (Count("scatter") = 1 /\ Count("gather") = 1)
           /\ Len(device_ids) = 1
                => /\ Count("scatter") = 0 /\ Count("gather") = 0
                   /\ Count(stepKind) = 1
                   /\ Count("parallel_apply") = 0

\* C9 amended: with exactly one device scatter is invoked exactly once, for
\* that one target, and the step is called directly, once, on its sole
\* element; gather and parallel_apply are not invoked.  The rest as stated.
C9_ShardMergeCounts ==
    (Returned /\ device_ids # <<>>)
        => /\ Len(device_ids) > 1
                => (Count("scatter") = 1 /\ Count("gather") = 1)
           /\ Len(device_ids) = 1
                => /\ Count("scatter") = 1 /\ Count("gather") = 0
                   /\ Count(stepKind) = 1
                   /\ Count("parallel_apply") = 0
                   /\ Len(tasks) = 1
                   /\ tasks[1].fn = stepKind
                   /\ tasks[1].arg = payload

C9_Witness ==
    /\ Returned /\ Len(device_ids) = 1
    /\ Count("scatter") = 1 /\ Count(stepKind) = 1
    /\ Len(payload) > 1

\* C10: without devices a call invokes the named step entry point exactly
\* once, directly on the unmodified payload, and invokes neither scatter nor
\* parallel_apply nor gather.
C10_NoDevicesDirect ==
    (InCall /\ device_ids = <<>>)
        => /\ ~Has("scatter") /\ ~Has("parallel_apply") /\ ~Has("gather")
           /\ Returned
                => /\ Count(stepKind) = 1
                   /\ Count("train_step") + Count("val_step") = 1
                   /\ Len(tasks) = 1
                   /\ tasks[1].fn = stepKind
                   /\ tasks[1].arg = payload
                   /\ ~tasks[1].scattered

C10_Witness ==
    /\ Returned /\ device_ids = <<>> /\ Len(payload) > 1
    /\ Count(stepKind) = 1 /\ tasks[1].arg = payload

-----------------------------------------------------------------------------
\* Vocabulary of the properties of failures, levels and traces.

Last(q) == q[Len(q)]
StepOps == {"train_step", "val_step"}
FlagsUntouched ==
    /\ require_forward_param_sync = fwd0
    /\ require_backward_grad_sync = bwd0

\* A non-parrots engine of at least version major.minor, read off the version.
AtLeast(major, minor) ==
    /\ ~TORCH_VERSION.parrots
    /\ LET d == TORCH_VERSION.digits
       IN  d[1] > major \/ (d[1] = major /\ d[2] >= minor)

\* C11: for every group size, a call of a step kind the wrapped module does
\* not implement fails with the step-not-supported error before any
\* per-device task and before any device work (bucket rebuild, buffer push,
\* sharding) of the call.
C11_MissingStepFailsFirst ==
    (InCall /\ stepKind \notin module.steps)
        => /\ log = <<>>
           /\ tasks = <<>>
           /\ pc \in {"done", "failed"} => error = "AttributeError"

\* C12 as stated: when a buffer push fails, before or after the computation,
\* the call fails and no dispatch of the step has taken place in it.
C12_PushFailureBeforeDispatch ==
    error = "PushError"
        => /\ pc = "failed"
           /\ tasks = <<>>
           /\ \A i \in DOMAIN log : log[i] \notin ComputeOps

\* C12 amended: when a buffer push fails the call fails; a failed
\* pre-compute push leaves the step undispatched, a failed post-compute push
\* comes after the dispatch and the merge; in both cases
\* prepare_for_backward is not invoked and the flags are untouched.
C12_PushFailure ==
    error = "PushError"
        => /\ pc = "failed"
           /\ log # <<>>
           /\ Last(log) \in PrePushOps \cup {"_sync_buffers:post"}
           /\ Last(log) \in PrePushOps
                => /\ tasks = <<>> /\ output = NoOutput
                   /\ \A i \in DOMAIN log : log[i] \notin ComputeOps
           /\ Last(log) = "_sync_buffers:post"
                => /\ tasks # <<>> /\ output # NoOutput
                   /\ \A t \in DOMAIN tasks : tasks[t].st = "done"
           /\ prepared = <<>>
           /\ FlagsUntouched

C12_Witness ==
    /\ error = "PushError" /\ pc = "failed"
    /\ Last(log) = "_sync_buffers:post"
    /\ Len(tasks) > 1 /\ Has("gather")

\* C13: when sharding the inputs fails, the call fails with that error, no
\* step entry point runs on any device, there is no merge, no post-compute
\* push and no prepare_for_backward, and both flags keep the values they had
\* when the call started.
C13_ShardingFailure ==
    (InCall /\ device_ids # <<>> /\ Has("scatter")
        /\ Len(payload) % Len(device_ids) # 0)
        => /\ pc = "failed" /\ error = "ShardingError"
           /\ tasks = <<>> /\ output = NoOutput
           /\ \A i \in DOMAIN log :
                  log[i] \notin StepOps \cup PostOps
                                \cup {"parallel_apply", "gather",
                                      "_check_sync_bufs_post_fwd=True",
                                      "_check_sync_bufs_post_fwd=False"}
           /\ prepared = <<>>
           /\ FlagsUntouched

C13_Witness ==
    /\ error = "ShardingError" /\ pc = "failed"
    /\ Len(device_ids) > 1 /\ Len(payload) % Len(device_ids) # 0
    /\ Has("_sync_params") /\ fwd0 = "True"
    /\ require_forward_param_sync = "True"

C16_PushDecisions ==
    InCall =>
        /\ AtLeast(1, 11) =>
            /\ ~Has("_sync_params")
            /\ Has("_sync_buffers:pre") <=> Has("_check_sync_bufs_pre_fwd=True")
            /\ Has("_sync_buffers:post")
                   <=> Has("_check_sync_bufs_post_fwd=True")
            /\ pc # "presync"
                   => Count("_check_sync_bufs_pre_fwd=True")
                        + Count("_check_sync_bufs_pre_fwd=False") = 1
            /\ pc \in {"backward", "done"}
                   => Count("_check_sync_bufs_post_fwd=True")
                        + Count("_check_sync_bufs_post_fwd=False") = 1
        /\ ~AtLeast(1, 11) =>
            /\ pc # "presync" => (Has("_sync_params") <=> fwd0 = "True")
            /\ \A i \in DOMAIN log :
                   log[i] \notin {"_check_sync_bufs_pre_fwd=True",
                                  "_check_sync_bufs_pre_fwd=False",
                                  "_check_sync_bufs_post_fwd=True",
                                  "_check_sync_bufs_post_fwd=False",
                                  "_sync_buffers:pre", "_sync_buffers:post"}

C16_Witness ==
    /\ Returned /\ AtLeast(1, 11) /\ fwd0 = "False"
    /\ Has("_sync_buffers:pre") /\ ~Has("_sync_buffers:post")
    /\ Has("_check_sync_bufs_post_fwd=False")

\* C17: in a call with gradient tracking on and require_backward_grad_sync
\* true, the argument of prepare_for_backward is exactly the tensors
\* reachable from the output when find_unused_parameters is true, and empty
\* otherwise.
C17_PrepareArgument ==
    (Returned /\ grad_enabled /\ bwd0 = "True")
        => /\ Len(prepared) = 1
           /\ Range(prepared[1]) =
                  IF find_unused_parameters THEN ReachableTensors(output)
                  ELSE {}

C17_Witness ==
    /\ Returned /\ grad_enabled /\ bwd0 = "True" /\ find_unused_parameters
    /\ Len(tasks) > 1 /\ module.fn = "nested"
    /\ Cardinality(Range(prepared[1])) = 2

\* C18: the only write of a call to the two flags is
\* require_forward_param_sync = False, as the last action of a call that did
\* not prime the reducer, on a non-parrots engine newer than 1.2; no call
\* sets a flag to true or writes require_backward_grad_sync; a call that
\* primes the reducer, a call that fails and every call on the legacy level
\* leave both flags unchanged.
C18_FlagFrame ==
    InCall =>
        /\ require_backward_grad_sync = bwd0
        /\ require_forward_param_sync # fwd0
               => /\ require_forward_param_sync = "False"
                  /\ pc = "done" /\ prepared = <<>>
                  /\ NewerThan_1_2
        /\ (Returned /\ prepared = <<>> /\ NewerThan_1_2)
               => require_forward_param_sync = "False"
        /\ (pc = "failed" \/ prepared # <<>> \/ ~NewerThan_1_2)
               => FlagsUntouched

C18_Witness ==
    /\ Returned /\ grad_enabled /\ prepared # <<>>
    /\ fwd0 = "False" /\ require_forward_param_sync = "False"
    /\ NewerThan_1_2

\* C19: a call invokes _rebuild_buckets() exactly once, as its first
\* collaborator call, on a non-parrots engine >= 1.7, and never on an older
\* engine or parrots; an engine >= 1.7 and < 1.11 rebuilds and still pushes
\* by the flag before the computation and never after it.
C19_RebuildFirst ==
    InCall =>
        /\ AtLeast(1, 7)
               => /\ log # <<>> /\ log[1] = "_rebuild_buckets"
                  /\ Count("_rebuild_buckets") = 1
        /\ ~AtLeast(1, 7) => ~Has("_rebuild_buckets")
        /\ (AtLeast(1, 7) /\ ~AtLeast(1, 11))
               => /\ pc # "presync"
                      => (Has("_sync_params") <=> fwd0 = "True")
                  /\ ~Has("_sync_buffers:pre") /\ ~Has("_sync_buffers:post")

C19_Witness ==
    /\ Returned /\ AtLeast(1, 7) /\ ~AtLeast(1, 11)
    /\ Len(log) > 2 /\ log[1] = "_rebuild_buckets" /\ log[2] = "_sync_params"

\* C20: with more than one device the merge is invoked only after every
\* per-device task has completed, in any order of completion; when a task
\* raises, the call fails with that error, the merge is not invoked, no
\* result is returned, and neither the post-compute push nor
\* prepare_for_backward runs.
C20_JoinBeforeMerge ==
    (InCall /\ Len(device_ids) > 1) =>
        /\ Has("gather")
               => /\ Len(tasks) = Len(device_ids)
                  /\ \A t \in DOMAIN tasks : tasks[t].st = "done"
        /\ pc \notin {"presync", "dispatch", "run", "failed"} => Has("gather")
        /\ (\E t \in DOMAIN tasks : tasks[t].st = "raised")
               => /\ pc \in {"run", "failed"}
                  /\ pc = "failed" => error = "ReplicaFailure"
                  /\ ~Has("gather") /\ output = NoOutput
                  /\ \A i \in DOMAIN log :
                         log[i] \notin PostOps
                                  \cup {"_check_sync_bufs_post_fwd=True",
                                        "_check_sync_bufs_post_fwd=False"}
                  /\ prepared = <<>>

C20_Witness ==
    /\ pc = "failed" /\ error = "ReplicaFailure" /\ Len(tasks) > 1
    /\ tasks[1].st = "raised" /\ tasks[2].st = "done"

\* C14: train_step and val_step run from the same wrapper state, under the
\* same gradient tracking, on the same inputs and with the same collaborator
\* answers make the same collaborator calls in the same order, pass the same
\* argument to prepare_for_backward, end the same way and leave the same
\* flags; they differ only in the name of the entry point called on the
\* wrapped module (which implements both).
Neutral(q) == [i \in DOMAIN q |-> IF q[i] \in StepOps THEN "step" ELSE q[i]]

====
